---- MODULE Spec2Model ----
(***************************************************************************)
(* Model of the Twitch chat bot: the command registry loader, the IRC      *)
(* dispatch loop with its cooldown table (main), the Twitch app token      *)
(* refresher (twitch.go) and the Riot caches (riot.go).                    *)
(*                                                                         *)
(* Text is modelled as sequences of runes (code points), so that the       *)
(* string functions of the code (TrimSpace, ToLower, Map, Split, SplitN,   *)
(* HasPrefix, Contains, TrimPrefix) are computed as the code computes them.*)
(***************************************************************************)
EXTENDS Integers, Sequences, FiniteSets, TLC

VARIABLES
    pc,             \* the main goroutine: "loop", "exited", "panicked", "blocked", "hung"
    config,         \* content of commands.json: sequence of <<raw key, CommandConfig>>
    commands,       \* registry returned by loadCommands: token -> CommandConfig
    lastUsed,       \* cooldown table: token -> time of the last recorded dispatch
    now,            \* the clock read by time.Now, in seconds
    iter,           \* parity of the number of frames read by the loop
    line,           \* the frame read last (after TrimSpace)
    wrote,          \* frames written to conn while handling that frame
    TwitchAppToken, \* the shared app token
    refresher,      \* TRUE while the refresh goroutine serves the ticks
    championsFile,  \* content of champions.json
    championsMap,   \* the champion table, the nil map until loaded
    playersFile,    \* state of players.json
    puuid,          \* the player's id resolved at startup
    streamCache,    \* session stat cache: key -> entry
    calls,          \* requests GetOrCachePlayer issued, per name pair asked for
    known,          \* the puuid of the last successful resolution, per name pair
    resolved,       \* what the last GetOrCachePlayer call returned
    sendErr,        \* TRUE when a write of the frames in `wrote` failed
    words,          \* the two memory words of TwitchAppToken: data pointer, length
    store,          \* the assignment to TwitchAppToken in progress in the refresher
    seen,           \* the words of TwitchAppToken a reader has loaded so far
    statsCall,      \* the last GetStreamStats call: its arguments, answers and result
    callers,        \* concurrent callers of GetStreamStats: the position of each
    streamCacheMu,  \* the holder of streamCacheMu, 0 when it is free
    attempts        \* history: how far each token went through dispatch and cooldown

vars == <<pc, config, commands, lastUsed, now, iter, line, wrote, TwitchAppToken,
          refresher, championsFile, championsMap, playersFile, puuid, streamCache,
          calls, known, resolved, sendErr, words, store, seen, statsCall, callers,
          streamCacheMu, attempts>>

-----------------------------------------------------------------------------
(* Rune strings *)

\* unicode.IsSpace, the White_Space property
IsSpace(r) ==
    \/ r \in {9, 10, 11, 12, 13, 32, 133, 160, 5760, 8232, 8233, 8239, 8287, 12288}
    \/ r \in 8192..8202

\* unicode.ToLower on the runes the model uses: ASCII and Latin-1 capitals,
\* U+0130 (dotted capital I) and U+212A (Kelvin sign), whose lower case is ASCII
ToLowerRune(r) ==
    IF r \in 65..90 THEN r + 32
    ELSE IF r \in (192..214) \cup (216..222) THEN r + 32
    ELSE IF r = 304 THEN 105
    ELSE IF r = 8490 THEN 107
    ELSE r

\* strings.ToLower
ToLower(s) == [i \in 1..Len(s) |-> ToLowerRune(s[i])]

RECURSIVE TrimLeft(_)
TrimLeft(s) ==
    IF s # <<>> /\ IsSpace(Head(s)) THEN TrimLeft(Tail(s)) ELSE s

RECURSIVE TrimRight(_)
TrimRight(s) ==
    IF s # <<>> /\ IsSpace(s[Len(s)]) THEN TrimRight(SubSeq(s, 1, Len(s) - 1)) ELSE s

\* strings.TrimSpace
TrimSpace(s) == TrimRight(TrimLeft(s))

\* the mapping function passed to strings.Map: -1 drops the rune
DropRune(r) == IF r > 127 THEN -1 ELSE r

\* strings.Map(DropRune, s)
RECURSIVE MapDrop(_)
MapDrop(s) ==
    IF s = <<>> THEN <<>>
    ELSE IF DropRune(Head(s)) < 0 THEN MapDrop(Tail(s))
    ELSE <<DropRune(Head(s))>> \o MapDrop(Tail(s))

\* The normalization of a config key (loadCommands) and of a chat message (main):
\* trim, then lower-case, then drop the non-ASCII runes.
Normalize(s) == MapDrop(ToLower(TrimSpace(s)))

\* strings.HasPrefix
HasPrefix(s, p) == Len(s) >= Len(p) /\ SubSeq(s, 1, Len(p)) = p

\* strings.Index: the first position of sep in s (1-based), 0 when absent
Index(s, sep) ==
    LET hits == {i \in 1..(Len(s) - Len(sep) + 1) : SubSeq(s, i, i + Len(sep) - 1) = sep}
    IN IF hits = {} THEN 0 ELSE CHOOSE i \in hits : \A j \in hits : i <= j

\* strings.Contains
Contains(s, sep) == Index(s, sep) > 0

\* strings.Split(s, sep), sep not empty: every piece between occurrences of sep
RECURSIVE Split(_, _)
Split(s, sep) ==
    LET i == Index(s, sep)
    IN IF i = 0 THEN <<s>>
       ELSE <<SubSeq(s, 1, i - 1)>> \o Split(SubSeq(s, i + Len(sep), Len(s)), sep)

\* strings.SplitN(s, sep, 2): at most two pieces, cut at the first sep
SplitN2(s, sep) ==
    LET i == Index(s, sep)
    IN IF i = 0 THEN <<s>>
       ELSE <<SubSeq(s, 1, i - 1), SubSeq(s, i + Len(sep), Len(s))>>

\* strings.TrimPrefix
TrimPrefix(s, p) == IF HasPrefix(s, p) THEN SubSeq(s, Len(p) + 1, Len(s)) ELSE s

\* The literals of the protocol
PING == <<80, 73, 78, 71>>
PRIVMSG == <<80, 82, 73, 86, 77, 83, 71>>
Colon == <<58>>
Bang == <<33>>

-----------------------------------------------------------------------------
(* Inputs: the command configuration, the files, the chat lines *)

\* The clock stops advancing here (keeps the state space finite).
MaxTime == 2

CmdStatic(resp, cd) == [Type |-> "static", Response |-> resp, Endpoint |-> "", Cooldown |-> cd]
CmdApi(ep, cd) == [Type |-> "api", Response |-> "", Endpoint |-> ep, Cooldown |-> cd]

\* commands.json in file order. CfgStatic holds two keys, "!hi" and "!HI ", that
\* normalize to one token, and a command whose endpoint main does not handle.
CfgStatic == << << <<33, 104, 105>>, CmdStatic("hi", 2) >>,
                << <<33, 72, 73, 32>>, CmdStatic("yo", 1) >>,
                << <<33, 108, 112>>, CmdApi("lp_info", 0) >> >>
CfgTitle == << << <<33, 116, 105, 116, 108, 101>>, CmdApi("twitch_stream_info", 2) >> >>
CfgRank == << << <<33, 101, 108, 111>>, CmdApi("riot_rank_info", 2) >> >>
CfgStats == << << <<33, 115, 116, 97, 116, 115>>, CmdApi("stream_stats_info", 1) >> >>
CfgBans == << << <<33, 98, 97, 110, 115>>, CmdApi("current_bans_info", 2) >> >>

Configs == {CfgStatic, CfgTitle, CfgRank, CfgStats, CfgBans}

\* champions.json: unreadable, not JSON, or a mapping from text keys to names
\* (one key that strconv.Atoi rejects)
ChampionsGood == [k \in {"1", "x"} |-> IF k = "1" THEN "Aatrox" ELSE "Bad"]
ChampionsFiles == {[state |-> "missing", table |-> <<>>], [state |-> "malformed", table |-> <<>>],
                   [state |-> "ok", table |-> ChampionsGood]}

\* championsMap: the nil map, or a table
NilMap == [nil |-> TRUE, table |-> <<>>]
Table(t) == [nil |-> FALSE, table |-> t]

\* strconv.Atoi on the keys the model uses: <<ok, value>>
Atoi(k) == IF k = "1" THEN <<TRUE, 1>> ELSE IF k = "999" THEN <<TRUE, 999>> ELSE <<FALSE, 0>>

\* The player of the environment: SUMMONER_NAME, SUMMONER_TAG
Summoner == <<97>>
SummonerTag == <<99>>

Users == {<<98, 111, 98>>, <<97, 109, 121>>}

RawKeys(cfg) == {cfg[i][1] : i \in 1..Len(cfg)}

\* Chat texts built from the configured keys: the key as written, its token, the
\* token after a non-ASCII rune and a space, the token followed by the word
\* PRIVMSG, the token after a colon.
Payloads(cfg) ==
    UNION {{k, Normalize(k), <<233, 32>> \o Normalize(k),
            Normalize(k) \o <<32>> \o PRIVMSG, Colon \o Normalize(k)} : k \in RawKeys(cfg)}

\* ":<user>!<user> PRIVMSG #c :<text>\r\n"
UserLine(user, text) ==
    Colon \o user \o Bang \o user \o <<32>> \o PRIVMSG \o <<32, 35, 99, 32, 58>> \o text \o <<13, 10>>

\* A message frame without the colon and body, a server line, a keepalive probe
NoBodyLine == <<58, 98, 111, 98, 33, 98, 32>> \o PRIVMSG \o <<32, 35, 99, 13, 10>>
ServerLine == <<58, 116, 109, 105, 32, 48, 48, 49, 32, 58, 104, 105, 13, 10>>
PingLine == PING \o <<32, 58, 116, 109, 105, 13, 10>>

Lines(cfg) ==
    {UserLine(u, t) : u \in Users, t \in Payloads(cfg)} \cup {NoBodyLine, ServerLine, PingLine}

-----------------------------------------------------------------------------
(* loadCommands *)

\* json.Unmarshal into map[string]CommandConfig: of equal keys the last one stays
Unmarshal(cfg) ==
    [k \in RawKeys(cfg) |->
        LET last == CHOOSE i \in 1..Len(cfg) :
                        /\ cfg[i][1] = k
                        /\ \A j \in 1..Len(cfg) : cfg[j][1] = k => j <= i
        IN cfg[last][2]]

\* The orders in which "for k, v := range commands" may visit the map
RangeOrders(m) ==
    {o \in [1..Cardinality(DOMAIN m) -> DOMAIN m] :
        \A i, j \in DOMAIN o : i # j => o[i] # o[j]}

\* normalizedCommands[cleanKey] = v
Put(reg, key, v) ==
    [t \in DOMAIN reg \cup {key} |-> IF t = key THEN v ELSE reg[t]]

\* The loop of loadCommands over the map in the order `order`
RECURSIVE NormalizeAll(_, _, _)
NormalizeAll(m, order, reg) ==
    IF order = <<>> THEN reg
    ELSE NormalizeAll(m, Tail(order), Put(reg, Normalize(Head(order)), m[Head(order)]))

EmptyMap == <<>>

loadCommands(cfg, order) == NormalizeAll(Unmarshal(cfg), order, EmptyMap)

-----------------------------------------------------------------------------
(* riot.go: makeRequest, the player cache, the champion table, rank, bans, stats *)

\* What makeRequest returns: a body, an error whose text holds "404", another error
\* (transport failure, other status, RIOT_TOKEN not set)
ReqOutcomes == {"ok", "err404", "err"}

\* fmt.Sprintf("%s#%s", gameName, tagLine)
PlayerKey(gameName, tagLine) == gameName \o <<35>> \o tagLine

\* What the account lookup answers: an error, a body json.Unmarshal rejects, a puuid
AccountAnswers == {"err", "baddecode", "p1", "p2"}
\* What the summoner lookup answers
SummonerAnswers == {"err", "baddecode", "ok"}
\* What os.WriteFile does: writes, fails leaving the file as it was, or fails after
\* truncating it
WriteOutcomes == {"ok", "fail", "partial"}

\* players.json: whether it exists, whether it decodes, the entries it holds
NoFile == [exists |-> FALSE, ok |-> FALSE, entries |-> EmptyMap]
PlayersFileOf(entries) == [exists |-> TRUE, ok |-> TRUE, entries |-> entries]
Truncated == [exists |-> TRUE, ok |-> FALSE, entries |-> EmptyMap]

\* GetOrCachePlayer storing the entry as soon as the account lookup has answered:
\* a failure of the summoner lookup then leaves an entry without summoner id
GetOrCachePlayerEarlyStore(file, gameName, tagLine, readOK, a1, a2, w, t) ==
    LET cache == IF file.exists /\ readOK /\ file.ok THEN file.entries ELSE EmptyMap
        key == PlayerKey(gameName, tagLine)
        entry == [GameName |-> gameName, TagLine |-> tagLine, PUUID |-> a1,
                  SummonerID |-> IF a2 = "ok" THEN "sid" ELSE "", CachedAt |-> t]
        stored == CASE w = "ok" -> PlayersFileOf(Put(cache, key, entry))
                    [] w = "fail" -> file
                    [] OTHER -> Truncated
    IN IF key \in DOMAIN cache
         THEN [puuid |-> cache[key].PUUID, err |-> FALSE, file |-> file, requests |-> 0]
       ELSE IF a1 \in {"err", "baddecode"}
         THEN [puuid |-> "", err |-> TRUE, file |-> file, requests |-> 1]
       ELSE IF a2 \in {"err", "baddecode"}
         THEN [puuid |-> "", err |-> TRUE, file |-> stored, requests |-> 2]
       ELSE [puuid |-> a1, err |-> FALSE, requests |-> 2, file |-> stored]

\* GetOrCachePlayer(gameName, tagLine). readOK: os.ReadFile succeeds; a1, a2: the
\* answers of the two lookups; w: the outcome of os.WriteFile; t: time.Now().
\* Returns the puuid, the error, the file afterwards and the requests issued.
GetOrCachePlayer(file, gameName, tagLine, readOK, a1, a2, w, t) ==
    LET cache == IF file.exists /\ readOK /\ file.ok THEN file.entries ELSE EmptyMap
        key == PlayerKey(gameName, tagLine)
        entry == [GameName |-> gameName, TagLine |-> tagLine, PUUID |-> a1,
                  SummonerID |-> "sid", CachedAt |-> t]
        failed(n) == [puuid |-> "", err |-> TRUE, file |-> file, requests |-> n]
    IN IF key \in DOMAIN cache
         THEN [puuid |-> cache[key].PUUID, err |-> FALSE, file |-> file, requests |-> 0]
       ELSE IF a1 \in {"err", "baddecode"} THEN failed(1)
       ELSE IF a2 \in {"err", "baddecode"} THEN failed(2)
       ELSE [puuid |-> a1, err |-> FALSE, requests |-> 2,
             file |-> CASE w = "ok" -> PlayersFileOf(Put(cache, key, entry))
                        [] w = "fail" -> file
                        [] OTHER -> Truncated]

\* LoadChampionMap. muHeld: championsMu is held by the caller, so Lock never
\* returns. Returns the table afterwards and the error.
LoadChampionMap(muHeld, file, map) ==
    IF muHeld THEN [blocked |-> TRUE, map |-> map, err |-> FALSE]
    ELSE IF ~map.nil THEN [blocked |-> FALSE, map |-> map, err |-> FALSE]
    ELSE IF file.state # "ok" THEN [blocked |-> FALSE, map |-> NilMap, err |-> TRUE]
    ELSE LET ids == {Atoi(k)[2] : k \in {x \in DOMAIN file.table : Atoi(x)[1]}}
         IN [blocked |-> FALSE, err |-> FALSE,
             map |-> Table([id \in ids |->
                        file.table[CHOOSE k \in DOMAIN file.table : Atoi(k) = <<TRUE, id>>]])]

\* fmt.Sprintf("Unknown(%d)", id)
Unknown(id) == <<"Unknown", id>>

\* GetChampionName(id): takes championsMu, loads the table when it is nil
GetChampionName(file, map, id) ==
    LET load == IF map.nil THEN LoadChampionMap(TRUE, file, map)
                ELSE [blocked |-> FALSE, map |-> map, err |-> FALSE]
    IN IF load.blocked THEN [blocked |-> TRUE, name |-> <<>>]
       ELSE IF load.err THEN [blocked |-> FALSE, name |-> Unknown(id)]
       ELSE IF id \in DOMAIN load.map.table THEN [blocked |-> FALSE, name |-> <<load.map.table[id]>>]
       ELSE [blocked |-> FALSE, name |-> Unknown(id)]

Gold == [QueueType |-> "RANKED_SOLO_5x5", Tier |-> "GOLD", Rank |-> "II", LeaguePoints |-> 50]
\* What the league body decodes to
RankLists == {<<>>, <<Gold>>}

\* GetCurrentRank(puuid)
GetCurrentRank(req, ranks) ==
    IF req # "ok" THEN [err |-> TRUE, ranks |-> <<>>] ELSE [err |-> FALSE, ranks |-> ranks]

\* The champion ids of the spectator body
BanLists == {<<>>, <<1>>, <<1, 999>>}

\* GetActiveMatchBans(puuid)
GetActiveMatchBans(file, map, req, ids) ==
    IF req = "err404" THEN [blocked |-> FALSE, err |-> FALSE, bans |-> <<>>]
    ELSE IF req = "err" THEN [blocked |-> FALSE, err |-> TRUE, bans |-> <<>>]
    ELSE LET names == [i \in 1..Len(ids) |-> GetChampionName(file, map, ids[i])]
         IN [blocked |-> \E i \in 1..Len(ids) : names[i].blocked, err |-> FALSE,
             bans |-> [i \in 1..Len(ids) |-> names[i].name]]

\* What one match detail fetch yields: a failed request, a body without info or
\* participants, a body without the player, a win of the player, a loss
DetailOutcomes == {"fail", "noinfo", "absent", "win", "loss"}

RECURSIVE Count(_, _)
Count(seq, x) ==
    IF seq = <<>> THEN 0 ELSE (IF Head(seq) = x THEN 1 ELSE 0) + Count(Tail(seq), x)

\* fmt.Sprintf("%s_%d", puuid, startTime)
StatsKey(id, startTime) == <<id, startTime>>

\* The division without the test total > 0
WinrateUnguarded(wins, losses) == <<100 * wins, wins + losses>>

\* float64(wins) / float64(total) * 100, kept as the fraction <<100 * wins, total>>
Winrate(wins, losses) ==
    IF wins + losses > 0 THEN <<100 * wins, wins + losses>> ELSE <<0, 1>>

\* StreamStatsCacheEntry{}
ZeroEntry == [Wins |-> 0, Losses |-> 0, Winrate |-> <<0, 1>>, LPStart |-> <<>>, LPEnd |-> <<>>,
              CachedAt |-> 0]

\* The entry GetStreamStats builds from the detail outcomes and the rank
StatsEntry(details, rank, t) ==
    LET wins == Count(details, "win")
        losses == Count(details, "loss")
        queues == {rank.ranks[i].QueueType : i \in 1..Len(rank.ranks)}
        lp(q) == LET i == CHOOSE j \in 1..Len(rank.ranks) :
                              /\ rank.ranks[j].QueueType = q
                              /\ \A k \in 1..Len(rank.ranks) :
                                     rank.ranks[k].QueueType = q => k <= j
                 IN rank.ranks[i].LeaguePoints
    IN [Wins |-> wins, Losses |-> losses, Winrate |-> Winrate(wins, losses),
        LPStart |-> [q \in queues |-> lp(q) - (wins - losses)],
        LPEnd |-> [q \in queues |-> lp(q)], CachedAt |-> t]

\* GetStreamStats without the cache lookup: every call computes and stores
GetStreamStatsRecompute(cache, id, startTime, listReq, details, rank, t) ==
    IF listReq # "ok"
      THEN [err |-> TRUE, entry |-> ZeroEntry, cache |-> cache, requests |-> 1]
    ELSE [err |-> FALSE, entry |-> StatsEntry(details, rank, t),
          cache |-> Put(cache, StatsKey(id, startTime), StatsEntry(details, rank, t)),
          requests |-> 2 + Len(details)]

\* GetStreamStats giving up at the first failed detail fetch
GetStreamStatsAbortOnFail(cache, id, startTime, listReq, details, rank, t) ==
    IF StatsKey(id, startTime) \in DOMAIN cache
      THEN [err |-> FALSE, entry |-> cache[StatsKey(id, startTime)], cache |-> cache,
            requests |-> 0]
    ELSE IF listReq # "ok"
      THEN [err |-> TRUE, entry |-> ZeroEntry, cache |-> cache, requests |-> 1]
    ELSE IF Count(details, "fail") > 0
      THEN [err |-> TRUE, entry |-> ZeroEntry, cache |-> cache, requests |-> 2]
    ELSE [err |-> FALSE, entry |-> StatsEntry(details, rank, t),
          cache |-> Put(cache, StatsKey(id, startTime), StatsEntry(details, rank, t)),
          requests |-> 2 + Len(details)]

\* GetStreamStats(puuid, startTime). listReq: the outcome of the match list
\* request; details: the outcome of each listed match; rank: what GetCurrentRank
\* returns; t: time.Now(). Returns the entry, the error, the cache afterwards and
\* the requests issued.
GetStreamStats(cache, id, startTime, listReq, details, rank, t) ==
    LET key == StatsKey(id, startTime)
        wins == Count(details, "win")
        losses == Count(details, "loss")
        queues == {rank.ranks[i].QueueType : i \in 1..Len(rank.ranks)}
        lp(q) == LET i == CHOOSE j \in 1..Len(rank.ranks) :
                              /\ rank.ranks[j].QueueType = q
                              /\ \A k \in 1..Len(rank.ranks) :
                                     rank.ranks[k].QueueType = q => k <= j
                 IN rank.ranks[i].LeaguePoints
        computed == [Wins |-> wins, Losses |-> losses, Winrate |-> Winrate(wins, losses),
                  LPStart |-> [q \in queues |-> lp(q) - (wins - losses)],
                  LPEnd |-> [q \in queues |-> lp(q)], CachedAt |-> t]
    IN IF key \in DOMAIN cache
         THEN [err |-> FALSE, entry |-> cache[key], cache |-> cache, requests |-> 0]
       ELSE IF listReq # "ok"
         THEN [err |-> TRUE, entry |-> ZeroEntry, cache |-> cache, requests |-> 1]
       ELSE [err |-> FALSE, entry |-> computed, cache |-> Put(cache, key, computed),
             requests |-> 2 + Len(details)]

\* The record of one GetStreamStats call: the window asked for, what the match
\* list request and the detail fetches answered, whether the cache held the key,
\* and what the call returned
NoCall == [start |-> -1, listReq |-> "", details |-> <<>>, hit |-> FALSE, err |-> FALSE,
           entry |-> ZeroEntry, requests |-> 0]

\* The goroutines that call GetStreamStats at the same time
Callers == {1, 2}

\* No caller inside GetStreamStats
NoCallers == [c \in Callers |-> [pc |-> "idle", start |-> 0, entry |-> ZeroEntry]]

-----------------------------------------------------------------------------
(* twitch.go: the app token and the stream queries *)

Tokens == {"tokA", "tokB"}

\* What the token endpoint answers: no response, a body that does not decode, a
\* 200 body with an access_token, or the JSON error body of a non-success status
\* (it decodes, and holds no access_token). "silent": the connection stays open
\* and no answer ever comes; http.Post uses http.DefaultClient, which has no
\* timeout, so the call never returns.
TokenAnswers ==
    {[kind |-> "neterr", status |-> 0, decodes |-> FALSE, AccessToken |-> ""],
     [kind |-> "silent", status |-> 0, decodes |-> FALSE, AccessToken |-> ""],
     [kind |-> "body", status |-> 503, decodes |-> FALSE, AccessToken |-> ""],
     [kind |-> "body", status |-> 400, decodes |-> TRUE, AccessToken |-> ""]}
    \cup {[kind |-> "body", status |-> 200, decodes |-> TRUE, AccessToken |-> t] : t \in Tokens}

\* RefreshAppToken: the value of TwitchAppToken afterwards
RefreshAppToken(token, a) ==
    IF a.kind = "neterr" THEN token
    ELSE IF ~a.decodes THEN token
    ELSE a.AccessToken

\* RefreshAppToken reaches the assignment of line 54
Assigns(a) == a.kind = "body" /\ a.decodes

\* A Go string is two words, a data pointer and a length. len(t):
TokenLen(t) == IF t = "" THEN 0 ELSE 4

\* The words of the string t (the zero string has no data)
WordsOf(t) == [data |-> IF t = "" THEN "nil" ELSE t, len |-> TokenLen(t)]

\* No assignment in progress
NoStore == [active |-> FALSE, value |-> "", left |-> {}]

\* A reader that has loaded nothing
Unread == [data |-> "unread", len |-> -1]

Live(title) == [Title |-> title, GameName |-> "LoL", StartedAt |-> 100]
\* What helix/streams answers: no response, a body that does not decode, or the
\* decoded data array (empty when the channel is offline). "silent": no answer
\* ever comes, and http.DefaultClient.Do, having no timeout, never returns.
HelixAnswers ==
    {[kind |-> "neterr", data |-> <<>>], [kind |-> "baddecode", data |-> <<>>],
     [kind |-> "silent", data |-> <<>>],
     [kind |-> "ok", data |-> <<>>], [kind |-> "ok", data |-> <<Live("ranked")>>],
     [kind |-> "ok", data |-> <<Live("Offline")>>]}

\* GetTwitchStreamInfo(channel)
GetTwitchStreamInfo(token, a) ==
    IF token = "" THEN [hung |-> FALSE, err |-> TRUE, title |-> "", game |-> ""]
    ELSE IF a.kind = "silent" THEN [hung |-> TRUE, err |-> FALSE, title |-> "", game |-> ""]
    ELSE IF a.kind # "ok" THEN [hung |-> FALSE, err |-> TRUE, title |-> "", game |-> ""]
    ELSE IF Len(a.data) = 0 THEN [hung |-> FALSE, err |-> FALSE, title |-> "Offline", game |-> ""]
    ELSE [hung |-> FALSE, err |-> FALSE, title |-> a.data[1].Title, game |-> a.data[1].GameName]

\* GetTwitchStreamStart(channel): a decode error is ignored and leaves no data
GetTwitchStreamStart(token, a) ==
    IF token = "" THEN [hung |-> FALSE, err |-> TRUE, start |-> 0]
    ELSE IF a.kind = "silent" THEN [hung |-> TRUE, err |-> FALSE, start |-> 0]
    ELSE IF a.kind = "neterr" THEN [hung |-> FALSE, err |-> TRUE, start |-> 0]
    ELSE IF Len(a.data) = 0 THEN [hung |-> FALSE, err |-> TRUE, start |-> 0]
    ELSE [hung |-> FALSE, err |-> FALSE, start |-> a.data[1].StartedAt]

-----------------------------------------------------------------------------
(* main: the handlers *)

\* say(conn, channel, "@<user> <text>")
Say(user, text) == [cmd |-> "PRIVMSG", to |-> user, text |-> text]
Pong == [cmd |-> "PONG", to |-> <<>>, text |-> <<"tmi.twitch.tv">>]
Login == <<[cmd |-> "PASS", to |-> <<>>, text |-> <<>>], [cmd |-> "NICK", to |-> <<>>, text |-> <<>>],
           [cmd |-> "JOIN", to |-> <<>>, text |-> <<>>]>>

\* What running a handler gives: the frames written, how it ends ("ok": it
\* returns, "panic": index out of range, "block": it waits for a mutex for ever,
\* "hang": it waits for an upstream answer for ever) and the session stat cache
\* afterwards
Ran(frames, cache) == [frames |-> frames, end |-> "ok", cache |-> cache]

\* case "twitch_stream_info"
TitleHandler(user, r, cache) ==
    IF r.hung THEN [frames |-> <<>>, end |-> "hang", cache |-> cache]
    ELSE IF r.err THEN Ran(<<Say(user, <<"Error fetching stream info.">>)>>, cache)
    ELSE IF r.title = "Offline" THEN Ran(<<Say(user, <<"Stream is offline.">>)>>, cache)
    ELSE Ran(<<Say(user, <<"Title", r.title, r.game>>)>>, cache)

\* case "riot_rank_info": rank[0] is read whatever GetCurrentRank returned
RankHandler(user, r, cache) ==
    IF Len(r.ranks) = 0 THEN [frames |-> <<>>, end |-> "panic", cache |-> cache]
    ELSE Ran(<<Say(user, <<"Current Rank", r.ranks[1].Tier, r.ranks[1].Rank,
                            r.ranks[1].LeaguePoints>>)>>, cache)

\* case "stream_stats_info": after a failed GetTwitchStreamStart the handler goes
\* on with start = 0
StatsHandler(user, start, stats, cache) ==
    IF start.hung THEN [frames |-> <<>>, end |-> "hang", cache |-> cache]
    ELSE
    Ran((IF start.err THEN <<Say(user, <<"Error fetching stream info.">>)>> ELSE <<>>)
        \o (IF stats.err THEN <<Say(user, <<"Error Fetching stream stats.">>)>>
            ELSE <<Say(user, <<"Wins", stats.entry.Wins, stats.entry.Losses,
                               stats.entry.Winrate>>)>>),
        stats.cache)

\* case "current_bans_info"
BansHandler(user, r, cache) ==
    IF r.blocked THEN [frames |-> <<>>, end |-> "block", cache |-> cache]
    ELSE IF r.err THEN Ran(<<Say(user, <<"Not in an Active Match">>)>>, cache)
    ELSE Ran(<<Say(user, <<"Banned Champions", r.bans>>)>>, cache)

\* The match detail outcomes of one session in the dispatch loop
SessionDetails == {<<"fail", "win">>}

\* switch cfg.Type / switch cfg.Endpoint: every way the handler of cfg can run
Handle(cfg, user) ==
    IF cfg.Type = "static" THEN {Ran(<<Say(user, <<cfg.Response>>)>>, streamCache)}
    ELSE IF cfg.Type # "api" THEN {Ran(<<>>, streamCache)}
    ELSE IF cfg.Endpoint = "twitch_stream_info" THEN
        {TitleHandler(user, GetTwitchStreamInfo(TwitchAppToken, a), streamCache) :
            a \in HelixAnswers}
    ELSE IF cfg.Endpoint = "riot_rank_info" THEN
        {RankHandler(user, GetCurrentRank(req, ranks), streamCache) :
            req \in ReqOutcomes, ranks \in RankLists}
    ELSE IF cfg.Endpoint = "stream_stats_info" THEN
        {StatsHandler(user, GetTwitchStreamStart(TwitchAppToken, a),
             GetStreamStats(streamCache, puuid, GetTwitchStreamStart(TwitchAppToken, a).start,
                            listReq, details, GetCurrentRank(req, ranks), now),
             streamCache) :
            a \in HelixAnswers, listReq \in ReqOutcomes, details \in SessionDetails,
            req \in ReqOutcomes, ranks \in RankLists}
    ELSE IF cfg.Endpoint = "current_bans_info" THEN
        {BansHandler(user, GetActiveMatchBans(championsFile, championsMap, req, ids),
                     streamCache) : req \in ReqOutcomes, ids \in BanLists}
    ELSE {Ran(<<>>, streamCache)}

-----------------------------------------------------------------------------
(* main: parsing a frame *)

IsPing(l) == HasPrefix(l, PING)

\* What the loop extracts from the frame l (already trimmed):
\*   parts := strings.Split(line, "PRIVMSG")
\*   user := strings.TrimPrefix(strings.Split(parts[0], "!")[0], ":")
\*   msg := strings.SplitN(parts[1], ":", 2)[1]
\*   command := the normalized msg
\* hasBody tells whether index 1 of the SplitN result exists.
Parse(l) ==
    LET isMsg == Contains(l, PRIVMSG)
        parts == Split(l, PRIVMSG)
        body == IF isMsg THEN SplitN2(parts[2], Colon) ELSE <<>>
        hasBody == Len(body) >= 2
    IN [ping |-> IsPing(l),
        privmsg |-> isMsg,
        nparts |-> Len(parts),
        hasBody |-> hasBody,
        user |-> IF isMsg THEN TrimPrefix(Split(parts[1], Bang)[1], Colon) ELSE <<>>,
        msg |-> IF hasBody THEN body[2] ELSE <<>>,
        command |-> IF hasBody THEN Normalize(body[2]) ELSE <<>>]

\* The frames of each configuration as the loop sees them: line = TrimSpace(line)
Frames == [c \in Configs |-> {TrimSpace(raw) : raw \in Lines(c)}]

\* Parse on every frame of the model (evaluated once)
Parsed == [l \in UNION {Frames[c] : c \in Configs} \cup {<<>>} |-> Parse(l)]

\* The cooldown check with the recorded time taken one second too old
CoolingDownOffByOne(table, command, cfg, t) ==
    command \in DOMAIN table /\ t - table[command] + 1 < cfg.Cooldown

\* time.Since(t) < time.Duration(cfg.Cooldown)*time.Second
CoolingDown(table, command, cfg, t) ==
    command \in DOMAIN table /\ t - table[command] < cfg.Cooldown

-----------------------------------------------------------------------------
(* main: the state when the loop starts, and the dispatch loop *)

\* The name pairs GetOrCachePlayer is asked for. Two of them, ("a", "b#c") and
\* ("a#b", "c"), format to one key.
Pairs == {<<Summoner, SummonerTag>>, <<Summoner, <<98, 35, 99>>>>, <<<<97, 35, 98>>, SummonerTag>>}

EntryOf(n, t, id) ==
    [GameName |-> n, TagLine |-> t, PUUID |-> id, SummonerID |-> "sid", CachedAt |-> 0]

\* players.json holding the player of the environment
SummonerFile ==
    PlayersFileOf(Put(EmptyMap, PlayerKey(Summoner, SummonerTag),
                      EntryOf(Summoner, SummonerTag, "p1")))

\* The configuration and the champion file of a run. The champion table is read
\* by the bans command only: the other configurations run with the good file.
Scenarios ==
    {sc \in [config : Configs, champions : ChampionsFiles] :
        sc.config = CfgBans \/ sc.champions.state = "ok"}

\* The state of main when it enters the for loop (lines 61-98): the player is
\* resolved, the registry loaded, the first token refresh done and the refresher
\* started, the champion table loaded (or not), the login frames written.
Init ==
    /\ pc = "loop"
    /\ \E sc \in Scenarios : config = sc.config /\ championsFile = sc.champions
    /\ \E order \in RangeOrders(Unmarshal(config)) : commands = loadCommands(config, order)
    /\ lastUsed = EmptyMap
    /\ now = 0
    /\ iter = 0
    /\ line = <<>>
    /\ wrote = Login
    /\ \E a \in TokenAnswers : a.kind # "silent" /\ TwitchAppToken = RefreshAppToken("", a)
    /\ refresher = TRUE
    /\ championsMap = LoadChampionMap(FALSE, championsFile, NilMap).map
    /\ playersFile = SummonerFile
    /\ puuid = GetOrCachePlayer(playersFile, Summoner, SummonerTag, TRUE, "err", "err", "ok", 0).puuid
    /\ streamCache = EmptyMap
    /\ calls = [p \in Pairs |-> 0]
    /\ known = [p \in Pairs |-> IF p = <<Summoner, SummonerTag>> THEN puuid ELSE ""]
    /\ resolved = [puuid |-> puuid, err |-> FALSE]
    /\ sendErr \in BOOLEAN
    /\ words = WordsOf(TwitchAppToken)
    /\ store = NoStore
    /\ seen = Unread
    /\ statsCall = NoCall
    /\ callers = NoCallers
    /\ streamCacheMu = 0
    /\ attempts = EmptyMap

\* The goroutine of StartAppTokenRefresher: one tick of the ticker. When the
\* token endpoint never answers, RefreshAppToken never returns and the goroutine
\* serves no further tick.
Refresh ==
    /\ refresher
    /\ pc \notin {"exited", "panicked"}
    /\ \E a \in TokenAnswers :
        /\ TwitchAppToken' = RefreshAppToken(TwitchAppToken, a)
        /\ refresher' = (a.kind # "silent")
    /\ words' = WordsOf(TwitchAppToken')
    /\ UNCHANGED <<pc, config, commands, lastUsed, now, iter, line, wrote,
                   championsFile, championsMap, playersFile, puuid, streamCache, calls,
                   known, resolved, sendErr, store, seen, statsCall, callers,
                   streamCacheMu,
                   attempts>>

\* Time passes while the loop waits in ReadString
Tick ==
    /\ pc = "loop"
    /\ now < MaxTime
    /\ now' = now + 1
    /\ UNCHANGED <<pc, config, commands, lastUsed, iter, line, wrote, TwitchAppToken,
                   refresher, championsFile, championsMap, playersFile, puuid, streamCache,
                   calls, known, resolved, sendErr, words, store, seen, statsCall, callers,
                   streamCacheMu,
                   attempts>>

\* reader.ReadString fails: main returns
ReadError ==
    /\ pc = "loop"
    /\ pc' = "exited"
    /\ UNCHANGED <<config, commands, lastUsed, now, iter, line, wrote, TwitchAppToken,
                   refresher, championsFile, championsMap, playersFile, puuid, streamCache,
                   calls, known, resolved, sendErr, words, store, seen, statsCall, callers,
                   streamCacheMu,
                   attempts>>

\* The keepalive probe without its continue: the iteration falls through to the
\* end of the loop body and records a dispatch of the empty command
OnPingFallsThrough ==
    /\ wrote' = <<Pong>>
    /\ lastUsed' = Put(lastUsed, <<>>, now)
    /\ UNCHANGED <<pc, streamCache>>

\* The keepalive probe: PONG, continue
OnPing ==
    /\ wrote' = <<Pong>>
    /\ UNCHANGED <<pc, lastUsed, streamCache>>

\* A skipped frame that records the current time for its command all the same
SkipRefreshes ==
    /\ wrote' = <<>>
    /\ lastUsed' = Put(lastUsed, Parsed[line'].command, now)
    /\ UNCHANGED <<pc, streamCache>>

\* A frame the loop skips: not a user message, an unregistered command, a
\* command in its cooldown
Skip ==
    /\ wrote' = <<>>
    /\ UNCHANGED <<pc, lastUsed, streamCache>>

\* The switch on cfg.Type, then lastUsed[command] = time.Now()
Dispatch(command, cfg, user) ==
    \E h \in Handle(cfg, user) :
        /\ wrote' = h.frames
        /\ streamCache' = h.cache
        /\ pc' = CASE h.end = "ok" -> "loop"
                   [] h.end = "panic" -> "panicked"
                   [] h.end = "hang" -> "hung"
                   [] OTHER -> "blocked"
        /\ lastUsed' = IF h.end = "ok" THEN Put(lastUsed, command, now) ELSE lastUsed

\* The body of the for loop on the frame l (already trimmed)
Iteration(l) ==
    LET f == Parsed[l] IN
    IF f.ping THEN OnPing
    ELSE IF ~f.privmsg \/ f.nparts < 2 THEN Skip
    ELSE IF ~f.hasBody THEN
        \* index out of range
        /\ wrote' = <<>>
        /\ pc' = "panicked"
        /\ UNCHANGED <<lastUsed, streamCache>>
    ELSE IF f.command \notin DOMAIN commands THEN Skip
    ELSE IF CoolingDown(lastUsed, f.command, commands[f.command], now) THEN Skip
    ELSE Dispatch(f.command, commands[f.command], f.user)

\* One iteration of the for loop: read a frame, handle it. The result of
\* fmt.Fprintf(conn, ...) is dropped, in say and for the PONG: a write that fails
\* changes nothing in what the loop does next.
Frame ==
    /\ pc = "loop"
    /\ \E l \in Frames[config] :
        /\ line' = l
        /\ Iteration(l)
    /\ iter' = 1 - iter
    /\ sendErr' \in (IF Len(wrote') > 0 THEN BOOLEAN ELSE {FALSE})
    /\ UNCHANGED <<config, commands, now, TwitchAppToken, refresher, championsFile,
                   championsMap, playersFile, puuid, calls, known, resolved, words, store,
                   seen, statsCall, callers, streamCacheMu>>

\* The iteration, no history kept
ReadFrame ==
    /\ Frame
    /\ UNCHANGED attempts

Next ==
    \/ Refresh
    \/ Tick
    \/ ReadError
    \/ ReadFrame

Spec == Init /\ [][Next]_vars

-----------------------------------------------------------------------------
(* GetOrCachePlayer called again and again in one process *)

\* The calls stop after this many upstream requests.
MaxRequests == 4

RECURSIVE Sum(_, _)
Sum(f, S) == IF S = {} THEN 0 ELSE LET x == CHOOSE y \in S : TRUE IN f[x] + Sum(f, S \ {x})

ResolveInit ==
    /\ pc = "resolve"
    /\ config = CfgStatic
    /\ commands = EmptyMap
    /\ lastUsed = EmptyMap
    /\ now = 0
    /\ iter = 0
    /\ line = <<>>
    /\ wrote = <<>>
    /\ TwitchAppToken = ""
    /\ refresher = FALSE
    /\ championsFile \in {f \in ChampionsFiles : f.state = "ok"}
    /\ championsMap = NilMap
    /\ playersFile \in {NoFile, SummonerFile}
    /\ puuid = ""
    /\ streamCache = EmptyMap
    /\ calls = [p \in Pairs |-> 0]
    /\ known = [p \in Pairs |-> ""]
    /\ resolved = [puuid |-> "", err |-> FALSE]
    /\ sendErr = FALSE
    /\ words = WordsOf(TwitchAppToken)
    /\ store = NoStore
    /\ seen = Unread
    /\ statsCall = NoCall
    /\ callers = NoCallers
    /\ streamCacheMu = 0
    /\ attempts = EmptyMap

\* One call GetOrCachePlayer(p[1], p[2])
Resolve ==
    /\ Sum(calls, Pairs) < MaxRequests
    /\ \E p \in Pairs, readOK \in BOOLEAN, a1 \in AccountAnswers, a2 \in SummonerAnswers,
          w \in WriteOutcomes :
        LET r == GetOrCachePlayer(playersFile, p[1], p[2], readOK, a1, a2, w, now)
        IN /\ playersFile' = r.file
           /\ puuid' = r.puuid
           /\ resolved' = [puuid |-> r.puuid, err |-> r.err]
           /\ calls' = [calls EXCEPT ![p] = @ + r.requests]
           /\ known' = IF r.err THEN known ELSE [known EXCEPT ![p] = r.puuid]
    /\ UNCHANGED <<pc, config, commands, lastUsed, now, iter, line, wrote, TwitchAppToken,
                   refresher, championsFile, championsMap, streamCache, sendErr, words,
                   store, seen, statsCall, callers, streamCacheMu,
                   attempts>>

SpecResolve == ResolveInit /\ [][Resolve]_vars

-----------------------------------------------------------------------------
(* Properties of the dispatch loop *)

\* The step reads a frame and handles it.
FrameStep == iter' # iter

\* The frame l is a user message with a body whose command is registered.
Registered(l) ==
    /\ ~Parsed[l].ping
    /\ Parsed[l].privmsg
    /\ Parsed[l].hasBody
    /\ Parsed[l].command \in DOMAIN commands

\* The frame l is a registered command inside its cooldown window: a dispatch of
\* its token was recorded less than Cooldown seconds ago.
InCooldown(l) ==
    /\ Registered(l)
    /\ Parsed[l].command \in DOMAIN lastUsed
    /\ now - lastUsed[Parsed[l].command] < commands[Parsed[l].command].Cooldown

\* The frame l is a registered command that passes the cooldown check.
Dispatched(l) == Registered(l) /\ ~InCooldown(l)

\* The frame l is a dispatched command that main routes to a remote operation.
RemoteDispatch(l) ==
    /\ Dispatched(l)
    /\ commands[Parsed[l].command].Type = "api"
    /\ commands[Parsed[l].command].Endpoint \in
         {"twitch_stream_info", "riot_rank_info", "stream_stats_info", "current_bans_info"}

\* C1: a message whose token was dispatched less than cooldown_seconds before
\* (from the time recorded for that dispatch) writes no frame and leaves the
\* recorded time as it is, whoever sends it.
C1_CooldownSuppresses ==
    [][(FrameStep /\ InCooldown(line')) => (wrote' = <<>> /\ lastUsed' = lastUsed /\ pc' = pc)]_vars

\* C1 witness: the frame handled last came from amy, its token was dispatched
\* less than its cooldown ago, and nothing was written for it.
C1_Witness ==
    /\ pc = "loop"
    /\ InCooldown(line)
    /\ Parsed[line].user = <<97, 109, 121>>
    /\ wrote = <<>>
    /\ now > lastUsed[Parsed[line].command]

\* C2: every dispatch of a static command or of one of the four remote operations
\* whose handler returns, with a result or with an error, writes exactly one
\* frame; every other user message (a registry miss, a call inside the cooldown)
\* writes none.
C2_OneFramePerDispatch ==
    [][(FrameStep /\ pc' = "loop" /\ ~Parsed[line'].ping /\ Parsed[line'].privmsg
          /\ Parsed[line'].hasBody)
        => IF Dispatched(line')
             THEN (commands[Parsed[line'].command].Type = "static" \/ RemoteDispatch(line'))
                    => Len(wrote') = 1
             ELSE Len(wrote') = 0]_vars

\* C3: no dispatch of a remote operation, whatever the upstream answers, leaves
\* the process crashed.
C3_NoCrashOnUpstreamError ==
    [][(FrameStep /\ RemoteDispatch(line')) => pc' # "panicked"]_vars

\* C4: a bans command completes, with the champion table loaded or not: the
\* handler returns, one frame is written and the loop reads on.
C4_BansCompletes ==
    [][(FrameStep /\ RemoteDispatch(line')
          /\ commands[Parsed[line'].command].Endpoint = "current_bans_info")
        => (pc' = "loop" /\ Len(wrote') = 1)]_vars

\* C5: a frame with the PRIVMSG marker and no colon-separated body is ignored:
\* nothing written, the cooldown table unchanged, the loop goes on.
C5_NoBodyIgnored ==
    [][(FrameStep /\ ~Parsed[line'].ping /\ Parsed[line'].privmsg /\ ~Parsed[line'].hasBody)
        => (wrote' = <<>> /\ lastUsed' = lastUsed /\ pc' = "loop")]_vars

\* C6: a keepalive probe writes exactly the PONG frame and changes neither the
\* cooldown table nor the player file, the champion table, the stat cache.
C6_PingOnlyPongs ==
    [][(FrameStep /\ Parsed[line'].ping)
        => (wrote' = <<Pong>> /\ pc' = "loop"
            /\ UNCHANGED <<lastUsed, playersFile, championsMap, streamCache>>)]_vars

\* C6 witness: a probe was handled while the cooldown table held an entry.
C6_Witness ==
    /\ pc = "loop"
    /\ Parsed[line].ping
    /\ wrote = <<Pong>>
    /\ DOMAIN lastUsed # {}

\* C7: normalizing the normalized message text changes nothing.
C7_NormalizeIdempotent ==
    Parsed[line].hasBody =>
        Normalize(Normalize(Parsed[line].msg)) = Normalize(Parsed[line].msg)

\* The index of the key defined last in commands.json among those with token t
LastDefined(t) ==
    CHOOSE i \in 1..Len(config) :
        /\ Normalize(config[i][1]) = t
        /\ \A j \in 1..Len(config) : Normalize(config[j][1]) = t => j <= i

\* C8: the registry holds, for every token, the specification of the key defined
\* last in the configuration among the keys with that token.
C8_LaterKeyWins ==
    \A t \in DOMAIN commands : commands[t] = config[LastDefined(t)][2]

\* C9: once a name pair has been resolved, no later call issues a request for
\* it, and the id it resolves to stays the same.
C9_ResolvedOnce ==
    [][\A p \in Pairs : known[p] # "" => (calls'[p] = calls[p] /\ known'[p] = known[p])]_vars

\* C10: once the app token is set, no refresh replaces it by the empty token.
C10_TokenStaysValid ==
    [][TwitchAppToken # "" => TwitchAppToken' # ""]_vars

\* C13: every dispatch of a registered command that passed the cooldown check and
\* whose handler ended, with a result or on an upstream failure, leaves the
\* current time recorded for its token in the cooldown table.
C13_DispatchRecorded ==
    [][(FrameStep /\ Dispatched(line') /\ pc' \notin {"blocked", "hung"})
        => /\ Parsed[line'].command \in DOMAIN lastUsed'
           /\ lastUsed'[Parsed[line'].command] = now]_vars

\* C14: once the write of a response or keepalive frame has failed, the loop
\* handles no further frame.
C14_WriteErrorStops ==
    [][(sendErr /\ wrote # Login) => ~FrameStep]_vars

\* C15: no handler is left waiting for ever for an upstream answer: every remote
\* call it makes returns.
C15_CallsReturn ==
    [][FrameStep => pc' # "hung"]_vars

\* The text of the user message l after the first colon that follows the first
\* PRIVMSG marker
Payload(l) ==
    LET rest == SubSeq(l, Index(l, PRIVMSG) + Len(PRIVMSG), Len(l))
    IN SubSeq(rest, Index(rest, Colon) + 1, Len(rest))

\* C20: the command candidate of a user message is the normalization of its
\* entire payload, whatever the payload contains.
C20_WholePayload ==
    (pc = "loop" /\ Parsed[line].privmsg /\ Parsed[line].hasBody)
        => Parsed[line].command = Normalize(Payload(line))

\* C18: a GetOrCachePlayer call that fails, on the account lookup or on the
\* summoner lookup, on the request or on the decoding of the answer, leaves
\* players.json exactly as it was: no entry is created.
C18_FailureStoresNothing ==
    [][resolved'.err => playersFile' = playersFile]_vars

\* C18 witness: the last call failed after it issued its lookups, for a pair that
\* has never been resolved, while players.json holds the entry of another pair.
C18_Witness ==
    /\ resolved.err
    /\ playersFile.exists /\ playersFile.ok
    /\ DOMAIN playersFile.entries # {}
    /\ \E p \in Pairs :
        /\ calls[p] >= 2
        /\ known[p] = ""
        /\ PlayerKey(p[1], p[2]) \notin DOMAIN playersFile.entries

-----------------------------------------------------------------------------
(* GetStreamStats called again and again by one caller *)

\* What the detail fetches of the listed matches yield, per answer of the match
\* list request
MatchLists == {<<>>, <<"win">>, <<"loss">>, <<"fail">>, <<"fail", "win">>, <<"win", "loss">>,
               <<"noinfo", "absent">>, <<"win", "fail", "loss">>, <<"win", "win", "loss">>}

\* The windows asked for: 0 (what main passes when GetTwitchStreamStart fails)
\* and the start of the live stream
Starts == {0, Live("ranked").StartedAt}

StatsInit ==
    /\ pc = "stats"
    /\ config = CfgStats
    /\ commands = EmptyMap
    /\ lastUsed = EmptyMap
    /\ now = 0
    /\ iter = 0
    /\ line = <<>>
    /\ wrote = <<>>
    /\ TwitchAppToken = ""
    /\ refresher = FALSE
    /\ championsFile \in {f \in ChampionsFiles : f.state = "ok"}
    /\ championsMap = NilMap
    /\ playersFile = SummonerFile
    /\ puuid = "p1"
    /\ streamCache = EmptyMap
    /\ calls = [p \in Pairs |-> 0]
    /\ known = [p \in Pairs |-> ""]
    /\ resolved = [puuid |-> "", err |-> FALSE]
    /\ sendErr = FALSE
    /\ words = WordsOf(TwitchAppToken)
    /\ store = NoStore
    /\ seen = Unread
    /\ statsCall = NoCall
    /\ callers = NoCallers
    /\ streamCacheMu = 0
    /\ attempts = EmptyMap

\* One call GetStreamStats(puuid, start)
Stats ==
    /\ \E start \in Starts, listReq \in ReqOutcomes, details \in MatchLists,
          req \in ReqOutcomes, ranks \in RankLists :
        LET r == GetStreamStats(streamCache, puuid, start, listReq, details,
                                GetCurrentRank(req, ranks), now)
        IN /\ streamCache' = r.cache
           /\ statsCall' = [start |-> start, listReq |-> listReq, details |-> details,
                            hit |-> StatsKey(puuid, start) \in DOMAIN streamCache,
                            err |-> r.err, entry |-> r.entry, requests |-> r.requests]
    /\ UNCHANGED <<pc, config, commands, lastUsed, now, iter, line, wrote, TwitchAppToken,
                   refresher, championsFile, championsMap, playersFile, puuid, calls,
                   known, resolved, sendErr, words, store, seen, callers, streamCacheMu,
                   attempts>>

SpecStats == StatsInit /\ [][Stats]_vars

-----------------------------------------------------------------------------
(* The refresher goroutine and a reader of TwitchAppToken, word by word.        *)
(* TwitchAppToken is a plain package variable: the assignment of twitch.go:54  *)
(* and the reads of lines 72, 79, 101, 107 take no lock and are not atomic, so *)
(* the two words of the string are stored and loaded one at a time, in the     *)
(* order the compiler chose.                                                   *)

TokenInit ==
    /\ pc = "token"
    /\ config = CfgTitle
    /\ commands = EmptyMap
    /\ lastUsed = EmptyMap
    /\ now = 0
    /\ iter = 0
    /\ line = <<>>
    /\ wrote = <<>>
    /\ \E a \in TokenAnswers : a.kind # "silent" /\ TwitchAppToken = RefreshAppToken("", a)
    /\ refresher = TRUE
    /\ championsFile \in {f \in ChampionsFiles : f.state = "ok"}
    /\ championsMap = NilMap
    /\ playersFile = SummonerFile
    /\ puuid = "p1"
    /\ streamCache = EmptyMap
    /\ calls = [p \in Pairs |-> 0]
    /\ known = [p \in Pairs |-> ""]
    /\ resolved = [puuid |-> "", err |-> FALSE]
    /\ sendErr = FALSE
    /\ words = WordsOf(TwitchAppToken)
    /\ store = NoStore
    /\ seen = Unread
    /\ statsCall = NoCall
    /\ callers = NoCallers
    /\ streamCacheMu = 0
    /\ attempts = EmptyMap

\* A tick of the refresher whose RefreshAppToken reaches line 54: the assignment
\* of tokenResp.AccessToken starts
BeginStore ==
    /\ refresher
    /\ ~store.active
    /\ \E a \in TokenAnswers :
        /\ Assigns(a)
        /\ store' = [active |-> TRUE, value |-> RefreshAppToken(TwitchAppToken, a),
                     left |-> {"data", "len"}]
    /\ UNCHANGED <<pc, config, commands, lastUsed, now, iter, line, wrote, TwitchAppToken,
                   refresher, championsFile, championsMap, playersFile, puuid, streamCache,
                   calls, known, resolved, sendErr, words, seen, statsCall, callers,
                   streamCacheMu,
                   attempts>>

\* The refresher stores one word of the string; the assignment is done when
\* both are stored
StoreWord ==
    /\ store.active
    /\ \E w \in store.left :
        /\ words' = IF w = "data" THEN [words EXCEPT !.data = WordsOf(store.value).data]
                                  ELSE [words EXCEPT !.len = WordsOf(store.value).len]
        /\ store' = IF store.left = {w} THEN NoStore ELSE [store EXCEPT !.left = @ \ {w}]
        /\ TwitchAppToken' = IF store.left = {w} THEN store.value ELSE TwitchAppToken
    /\ UNCHANGED <<pc, config, commands, lastUsed, now, iter, line, wrote,
                   refresher, championsFile, championsMap, playersFile, puuid, streamCache,
                   calls, known, resolved, sendErr, seen, statsCall, callers,
                   streamCacheMu,
                   attempts>>

\* The main goroutine, reading TwitchAppToken in GetTwitchStreamInfo or
\* GetTwitchStreamStart, loads one word of the string
LoadWord ==
    /\ \/ seen.data = "unread" /\ seen' = [seen EXCEPT !.data = words.data]
       \/ seen.len = -1 /\ seen' = [seen EXCEPT !.len = words.len]
    /\ UNCHANGED <<pc, config, commands, lastUsed, now, iter, line, wrote, TwitchAppToken,
                   refresher, championsFile, championsMap, playersFile, puuid, streamCache,
                   calls, known, resolved, sendErr, words, store, statsCall, callers,
                   streamCacheMu,
                   attempts>>

\* The reader has loaded both words
Loaded == seen.data # "unread" /\ seen.len # -1

\* The reader uses the value it loaded; its next read starts afresh
Use ==
    /\ Loaded
    /\ seen' = Unread
    /\ UNCHANGED <<pc, config, commands, lastUsed, now, iter, line, wrote, TwitchAppToken,
                   refresher, championsFile, championsMap, playersFile, puuid, streamCache,
                   calls, known, resolved, sendErr, words, store, statsCall, callers,
                   streamCacheMu,
                   attempts>>

TokenNext ==
    \/ BeginStore
    \/ StoreWord
    \/ LoadWord
    \/ Use

SpecToken == TokenInit /\ [][TokenNext]_vars

\* The words w are the words of the string t (a string of length 0 is the
\* empty string whatever its data word).
IsString(w, t) == w.len = TokenLen(t) /\ (w.len = 0 \/ w.data = t)

\* C11: whenever a reader has loaded TwitchAppToken, what it holds is a complete
\* token: the empty one or one the token endpoint issued.
C11_NoTornRead ==
    Loaded => \E t \in Tokens \cup {""} : IsString(seen, t)

-----------------------------------------------------------------------------
(* GetStreamStats called by two goroutines at the same time: the steps of one  *)
(* call, with streamCacheMu taken and released where the code does.            *)

\* What the detail fetches yield in these calls
RaceLists == {<<"win">>, <<"loss">>}

RaceInit ==
    /\ pc = "race"
    /\ config = CfgStats
    /\ commands = EmptyMap
    /\ lastUsed = EmptyMap
    /\ now = 0
    /\ iter = 0
    /\ line = <<>>
    /\ wrote = <<>>
    /\ TwitchAppToken = ""
    /\ refresher = FALSE
    /\ championsFile \in {f \in ChampionsFiles : f.state = "ok"}
    /\ championsMap = NilMap
    /\ playersFile = SummonerFile
    /\ puuid = "p1"
    /\ streamCache = EmptyMap
    /\ calls = [p \in Pairs |-> 0]
    /\ known = [p \in Pairs |-> ""]
    /\ resolved = [puuid |-> "", err |-> FALSE]
    /\ sendErr = FALSE
    /\ words = WordsOf(TwitchAppToken)
    /\ store = NoStore
    /\ seen = Unread
    /\ statsCall = NoCall
    /\ callers = NoCallers
    /\ streamCacheMu = 0
    /\ attempts = EmptyMap

\* What a step of a caller leaves alone
RaceFrame ==
    UNCHANGED <<pc, config, commands, lastUsed, now, iter, line, wrote, TwitchAppToken,
                refresher, championsFile, championsMap, playersFile, puuid, calls, known,
                resolved, sendErr, words, store, seen, statsCall, attempts>>

\* The caller c is at position p
At(c, p) == callers[c].pc = p

\* The caller c moves to position p, with the entry e in hand
Goto(c, p, e) == callers' = [callers EXCEPT ![c] = [@ EXCEPT !.pc = p, !.entry = e]]

\* c calls GetStreamStats(puuid, start) and reaches streamCacheMu.Lock() (274)
Call(c) ==
    /\ At(c, "idle")
    /\ \E start \in Starts :
        callers' = [callers EXCEPT ![c] = [pc |-> "lock", start |-> start, entry |-> ZeroEntry]]
    /\ UNCHANGED <<streamCache, streamCacheMu>>
    /\ RaceFrame

\* streamCacheMu.Lock() returns (274)
LockForCheck(c) ==
    /\ At(c, "lock")
    /\ streamCacheMu = 0
    /\ streamCacheMu' = c
    /\ Goto(c, "check", ZeroEntry)
    /\ UNCHANGED streamCache
    /\ RaceFrame

\* The lookup, and the Unlock on both branches (275-279)
Check(c) ==
    /\ At(c, "check")
    /\ streamCacheMu' = 0
    /\ IF StatsKey(puuid, callers[c].start) \in DOMAIN streamCache
         THEN callers' = [callers EXCEPT ![c] = NoCallers[c]]
         ELSE Goto(c, "populate", ZeroEntry)
    /\ UNCHANGED streamCache
    /\ RaceFrame

\* The upstream requests and the aggregation (281-343), streamCacheMu not held
Populate(c) ==
    /\ At(c, "populate")
    /\ \E listReq \in ReqOutcomes, details \in RaceLists, req \in ReqOutcomes,
          ranks \in RankLists :
        LET r == GetStreamStats(EmptyMap, puuid, callers[c].start, listReq, details,
                                GetCurrentRank(req, ranks), now)
        IN IF r.err THEN callers' = [callers EXCEPT ![c] = NoCallers[c]]
           ELSE Goto(c, "relock", r.entry)
    /\ UNCHANGED <<streamCache, streamCacheMu>>
    /\ RaceFrame

\* streamCacheMu.Lock() returns (345)
LockForInsert(c) ==
    /\ At(c, "relock")
    /\ streamCacheMu = 0
    /\ streamCacheMu' = c
    /\ Goto(c, "insert", callers[c].entry)
    /\ UNCHANGED streamCache
    /\ RaceFrame

\* streamCache[key] = entry, Unlock, return (346-349)
Insert(c) ==
    /\ At(c, "insert")
    /\ streamCache' = Put(streamCache, StatsKey(puuid, callers[c].start), callers[c].entry)
    /\ streamCacheMu' = 0
    /\ callers' = [callers EXCEPT ![c] = NoCallers[c]]
    /\ RaceFrame

RaceNext ==
    \E c \in Callers :
        \/ Call(c)
        \/ LockForCheck(c)
        \/ Check(c)
        \/ Populate(c)
        \/ LockForInsert(c)
        \/ Insert(c)

SpecStatsRace == RaceInit /\ [][RaceNext]_vars

-----------------------------------------------------------------------------
(* Properties of the session stat cache *)

\* The call recorded in c asked upstream and built an entry.
Computed(c) == c.start >= 0 /\ ~c.hit /\ c.listReq = "ok"

\* Every entry the cache held before the step is still there, unchanged.
EntriesKept ==
    \A j \in DOMAIN streamCache : j \in DOMAIN streamCache' /\ streamCache'[j] = streamCache[j]

\* C12 as stated: a call for a window that has an entry returns that entry and
\* issues no request; a call for a window that has none creates its entry and
\* leaves the others as they are.
C12_AsStated ==
    [][LET k == StatsKey(puuid, statsCall'.start) IN
        IF k \in DOMAIN streamCache
          THEN /\ ~statsCall'.err
               /\ statsCall'.entry = streamCache[k]
               /\ statsCall'.requests = 0
               /\ streamCache' = streamCache
          ELSE /\ k \in DOMAIN streamCache'
               /\ EntriesKept]_vars

\* C12: a call for a window that has an entry returns that entry, issues no
\* request and changes nothing, whatever upstream would answer now; a call for
\* a window that has none creates its entry when the match list request
\* succeeds and creates nothing when it fails; in both cases the entries of the
\* other windows stay as they are.
C12_CachedWindowImmutable ==
    [][LET k == StatsKey(puuid, statsCall'.start) IN
        IF k \in DOMAIN streamCache
          THEN /\ ~statsCall'.err
               /\ statsCall'.entry = streamCache[k]
               /\ statsCall'.requests = 0
               /\ streamCache' = streamCache
          ELSE /\ EntriesKept
               /\ IF statsCall'.listReq = "ok"
                    THEN ~statsCall'.err /\ k \in DOMAIN streamCache'
                           /\ streamCache'[k] = statsCall'.entry
                    ELSE statsCall'.err /\ streamCache' = streamCache]_vars

\* C12 witness: both windows have an entry, and the last call, for the window
\* computed first and while the match list request fails, got the entry back
\* without a request.
C12_Witness ==
    /\ Cardinality(DOMAIN streamCache) = 2
    /\ statsCall.hit
    /\ statsCall.listReq # "ok"
    /\ ~statsCall.err
    /\ statsCall.requests = 0
    /\ statsCall.entry = streamCache[StatsKey(puuid, statsCall.start)]
    /\ statsCall.entry.Wins = 2

\* C16: the winrate of a computed entry is defined; it is 100 * wins / (wins +
\* losses) when a game was counted and 0 when none was; and two computations from
\* the same upstream answers give the same wins, losses and winrate.
C16_Winrate ==
    [][Computed(statsCall') =>
        LET e == statsCall'.entry IN
        /\ e.Winrate[2] > 0
        /\ e.Wins + e.Losses > 0 =>
               e.Winrate[1] * (e.Wins + e.Losses) = 100 * e.Wins * e.Winrate[2]
        /\ e.Wins + e.Losses = 0 => e.Winrate[1] = 0
        /\ (Computed(statsCall) /\ statsCall.details = statsCall'.details) =>
               /\ e.Wins = statsCall.entry.Wins
               /\ e.Losses = statsCall.entry.Losses
               /\ e.Winrate = statsCall.entry.Winrate]_vars

\* C16 witness: the last call computed an entry with no win and no loss, after
\* an entry with two wins and a loss was computed for the other window.
C16_Witness ==
    /\ Computed(statsCall)
    /\ statsCall.entry.Wins = 0 /\ statsCall.entry.Losses = 0
    /\ statsCall.entry.Winrate[1] = 0
    /\ \E k \in DOMAIN streamCache : streamCache[k].Wins = 2 /\ streamCache[k].Losses = 1

\* C19: a computation whose match list request succeeded returns without
\* error whatever the detail fetches yield; it counts one win per fetched detail
\* where the player won, one loss per fetched detail where the player is listed
\* and did not win, nothing for a failed fetch, and stores its entry.
C19_FailedDetailSkipped ==
    [][Computed(statsCall') =>
        LET e == statsCall'.entry
            d == statsCall'.details
        IN /\ ~statsCall'.err
           /\ e.Wins = Count(d, "win")
           /\ e.Losses = Count(d, "loss")
           /\ e.Wins + e.Losses <= Len(d)
           /\ StatsKey(puuid, statsCall'.start) \in DOMAIN streamCache'
           /\ streamCache'[StatsKey(puuid, statsCall'.start)] = e]_vars

\* C19 witness: the last call listed three matches, one detail fetch failed, and
\* the entry with the win and the loss of the other two is in the cache.
C19_Witness ==
    /\ Computed(statsCall)
    /\ statsCall.details = <<"win", "fail", "loss">>
    /\ ~statsCall.err
    /\ statsCall.entry.Wins = 1 /\ statsCall.entry.Losses = 1
    /\ streamCache[StatsKey(puuid, statsCall.start)] = statsCall.entry

\* C17: two callers never run the upstream requests for one key at the same
\* time, and no step replaces an entry the session stat cache holds.
C17_PopulateOnceNoOverwrite ==
    [][/\ EntriesKept
       /\ ~\E c, d \in Callers :
              /\ c # d
              /\ callers'[c].pc = "populate" /\ callers'[d].pc = "populate"
              /\ callers'[c].start = callers'[d].start]_vars

-----------------------------------------------------------------------------
(* The dispatch loop with the history of each token *)

\* How far the token t went: 0 never dispatched, 1 dispatched, 2 an attempt
\* was suppressed after that dispatch, 3 dispatched again after the suppressed
\* attempt
Phase(t) == IF t \in DOMAIN attempts THEN attempts[t] ELSE 0

\* The iteration, noting in the history what happened to the token of the frame
ReadFrameNoting ==
    /\ Frame
    /\ attempts' =
         LET c == Parsed[line'].command IN
         IF ~Registered(line') THEN attempts
         ELSE IF InCooldown(line') THEN (IF Phase(c) = 1 THEN Put(attempts, c, 2) ELSE attempts)
         ELSE IF pc' # "loop" THEN attempts
         ELSE IF Phase(c) = 0 THEN Put(attempts, c, 1)
         ELSE IF Phase(c) = 2 THEN Put(attempts, c, 3)
         ELSE attempts

CooldownNext ==
    \/ Refresh
    \/ Tick
    \/ ReadError
    \/ ReadFrameNoting

\* The runs whose history is kept: every configuration but the stats command,
\* whose session cache multiplies the states
CooldownInit == Init /\ config # CfgStats

SpecCooldown == CooldownInit /\ [][CooldownNext]_vars

\* C21: only the loop changes the cooldown table; a frame that is no registered
\* command and a registered command inside its cooldown leave the table as it
\* is; and a registered command whose recorded dispatch is at least Cooldown
\* seconds old is dispatched: its handler runs (it crashes or stays suspended,
\* or it returns, its reply written and the current time recorded).
C21_SuppressedKeepsTable ==
    [][/\ ~FrameStep => lastUsed' = lastUsed
       /\ FrameStep =>
            LET c == Parsed[line'].command IN
            /\ (~Registered(line') \/ InCooldown(line')) => lastUsed' = lastUsed
            /\ (Registered(line') /\ c \in DOMAIN lastUsed
                  /\ now - lastUsed[c] >= commands[c].Cooldown)
                 => \/ pc' # "loop"
                    \/ /\ c \in DOMAIN lastUsed' /\ lastUsed'[c] = now
                       /\ (commands[c].Type = "static" \/ RemoteDispatch(line'))
                            => wrote' # <<>>]_vars

\* C21 witness: the token of the last frame was dispatched, then an attempt was
\* suppressed, and now, its cooldown over, it was dispatched again: the reply is
\* written and the current time recorded.
C21_Witness ==
    /\ pc = "loop"
    /\ Registered(line)
    /\ Phase(Parsed[line].command) = 3
    /\ commands[Parsed[line].command].Cooldown > 0
    /\ lastUsed[Parsed[line].command] = now
    /\ wrote # <<>>

\* C22: when a call rewrites players.json, every entry the file held is still
\* in it, with the same puuid.
C22_EntriesPermanent ==
    [][(playersFile.exists /\ playersFile.ok /\ playersFile' # playersFile /\ playersFile'.ok)
        => \A k \in DOMAIN playersFile.entries :
              /\ k \in DOMAIN playersFile'.entries
              /\ playersFile'.entries[k].PUUID = playersFile.entries[k].PUUID]_vars

====
